---- MODULE Spec2Model ----
(***************************************************************************)
(* ECIES over a generic group with AES-256-CTR (fastcrypto-tbls,           *)
(* src/fastcrypto-tbls/src/ecies_v0.rs): single-recipient encryption,      *)
(* multi-recipient encryption with a discrete-log NIZK bound to the        *)
(* ciphertext list, and recovery packages with a DDH-tuple NIZK.           *)
(*                                                                         *)
(* The group is Z_GroupOrder written additively with generator 1, so a     *)
(* scalar multiplication g * s is (g * s) % GroupOrder.  Bytes are         *)
(* 0..255.  The functions of ecies_v0.rs are operators; every public       *)
(* operation is an action that applies the operator to inputs drawn from   *)
(* bounded sets and keeps the object it returns.                           *)
(***************************************************************************)
EXTENDS Integers, Sequences, FiniteSets, TLC

\* ---------------------------------------------------------------- bounds
GroupOrder == 3
MaxRecipients == 2
MaxMsgLen == 2
MaxTamper == 1

\* ------------------------------------------------------ program constants
AES_KEY_LENGTH == 32
NONCE_LENGTH == 16
USIZE_BYTES == 8
ByteRange == 256

Scalars == 0 .. (GroupOrder - 1)
Elements == 0 .. (GroupOrder - 1)
RandomOracles == {"ro-a", "ro-b"}

\* ------------------------------------------------------------- data types
None == << >>
Some(x) == << x >>
Ok(v) == [tag |-> "Ok", val |-> v]
Err(e) == [tag |-> "Err", err |-> e]
Unit == "()"
InvalidInput == "InvalidInput"
InvalidProof == "InvalidProof"

\* ------------------------------------------------- group / scalar algebra
Generator == 1 % GroupOrder
Mul(g, s) == (g * s) % GroupOrder

\* -------------------------------------------------------------- encodings
RECURSIVE Xor8Bits(_, _, _)
Xor8Bits(a, b, n) ==
  IF n = 0 THEN 0
  ELSE ((a + b) % 2) + 2 * Xor8Bits(a \div 2, b \div 2, n - 1)
Xor8(a, b) == Xor8Bits(a, b, 8)

\* bcs of a group element: the element's own fixed-width encoding.
BcsElement(g) == << g % ByteRange >>

\* usize::to_be_bytes
RECURSIVE BeBytes(_, _)
BeBytes(n, width) ==
  IF width = 0 THEN << >>
  ELSE BeBytes(n \div ByteRange, width - 1) \o << n % ByteRange >>
ToBeBytes(n) == BeBytes(n, USIZE_BYTES)

RECURSIVE Uleb128(_)
Uleb128(n) ==
  IF n < 128 THEN << n >>
  ELSE << 128 + (n % 128) >> \o Uleb128(n \div 128)

\* bcs of Vec<u8>: ULEB128 length, then the bytes.
BcsBytes(b) == Uleb128(Len(b)) \o b

RECURSIVE BcsConcat(_, _)
BcsConcat(vs, k) ==
  IF k > Len(vs) THEN << >>
  ELSE BcsBytes(vs[k]) \o BcsConcat(vs, k + 1)

\* bcs of Vec<Vec<u8>>: ULEB128 length, then every entry's encoding in order.
BcsVecVec(vs) == Uleb128(Len(vs)) \o BcsConcat(vs, 1)

\* ------------------------------------------------ key derivation, cipher
RECURSIVE SumSeq(_, _)
SumSeq(s, k) == IF k > Len(s) THEN 0 ELSE s[k] + SumSeq(s, k + 1)

\* The derived key is the term of its inputs: equal inputs, equal key.
hkdf_sha3_256(ikm, salt, info, len) ==
  [ikm |-> ikm, salt |-> salt, info |-> info, len |-> len]

\* Byte p (from 0) of the keystream of `key` under nonce `iv`.
\* A fixed function of the key, the nonce and the position stands for the
\* AES-256 block function; keys with different inputs may still share bytes.
Keystream(key, iv, p) ==
  (16 * SumSeq(key.ikm, 1) + SumSeq(key.info, 1) + SumSeq(key.salt, 1)
     + SumSeq(iv, 1) + 4 * p + 2) % ByteRange

\* Aes256Ctr: encrypt and decrypt XOR the data with the keystream.
CtrEncrypt(key, iv, msg) ==
  [p \in 1 .. Len(msg) |-> Xor8(msg[p], Keystream(key, iv, p - 1))]
CtrDecrypt(key, iv, data) ==
  Ok([p \in 1 .. Len(data) |-> Xor8(data[p], Keystream(key, iv, p - 1))])

\* ------------------------------------------------------------- Encryption
fixed_zero_nonce == [k \in 1 .. NONCE_LENGTH |-> 0]

hkdf(ikm, info) ==
  hkdf_sha3_256(BcsElement(ikm), << >>, ToBeBytes(info), AES_KEY_LENGTH)

sym_encrypt(k, info) == hkdf(k, info)

deterministic_encrypt(msg, r_g, r_x_g, hkdf_info) ==
  LET cipher == sym_encrypt(r_x_g, hkdf_info)
      data == CtrEncrypt(cipher, fixed_zero_nonce, msg)
  IN [ephemeral_key |-> r_g, data |-> data, hkdf_info |-> hkdf_info]

Encryption_encrypt(x_g, msg, r) ==
  LET r_g == Mul(Generator, r)
      r_x_g == Mul(x_g, r)
  IN deterministic_encrypt(msg, r_g, r_x_g, 0)

\* Mutant: the key is derived from the ephemeral key, not the partial key.
decrypt_from_partial_decryption_eph(enc, partial_key) ==
  LET cipher == sym_encrypt(enc.ephemeral_key, enc.hkdf_info)
  IN CtrDecrypt(cipher, fixed_zero_nonce, enc.data).val

decrypt_from_partial_decryption(enc, partial_key) ==
  LET cipher == sym_encrypt(partial_key, enc.hkdf_info)
  IN CtrDecrypt(cipher, fixed_zero_nonce, enc.data).val

\* Mutant: the partial key is the public key of sk, not ephemeral_key * sk.
Encryption_decrypt_pk(enc, sk) ==
  LET partial_key == Mul(Generator, sk)
  IN decrypt_from_partial_decryption(enc, partial_key)

Encryption_decrypt(enc, sk) ==
  LET partial_key == Mul(enc.ephemeral_key, sk)
  IN decrypt_from_partial_decryption(enc, partial_key)

\* ------------------------------------------------------ proofs (nizk.rs)
\* A proof carries the statement and transcript it was created for; it
\* verifies exactly against them, and only if the prover knew the secret.
DLNizk_create(x, x_g, aux_data, random_oracle) ==
  [x_g |-> x_g, aux |-> aux_data, ro |-> random_oracle,
   sound |-> (Mul(Generator, x) = x_g)]

DLNizk_verify(proof, x_g, aux_data, random_oracle) ==
  IF proof.sound /\ proof.x_g = x_g /\ proof.aux = aux_data
     /\ proof.ro = random_oracle
  THEN Ok(Unit) ELSE Err(InvalidProof)

DdhTupleNizk_create(x, h, x_g, x_h, random_oracle) ==
  [h |-> h, x_g |-> x_g, x_h |-> x_h, ro |-> random_oracle,
   sound |-> (Mul(Generator, x) = x_g /\ Mul(h, x) = x_h)]

DdhTupleNizk_verify(proof, h, x_g, x_h, random_oracle) ==
  IF proof.sound /\ proof.h = h /\ proof.x_g = x_g /\ proof.x_h = x_h
     /\ proof.ro = random_oracle
  THEN Ok(Unit) ELSE Err(InvalidProof)

\* ------------------------------------------------- PrivateKey, PublicKey
from_private_key(sk) == Mul(Generator, sk)

PrivateKey_decrypt(sk, enc) == Encryption_decrypt(enc, sk)

create_recovery_package(sk, enc, random_oracle) ==
  LET ephemeral_key == Mul(enc.ephemeral_key, sk)
      pk == Mul(Generator, sk)
      proof == DdhTupleNizk_create(sk, enc.ephemeral_key, pk, ephemeral_key,
                                   random_oracle)
  IN [ephemeral_key |-> ephemeral_key, proof |-> proof]

\* Mutant: the result of the proof's verification is dropped.
decrypt_with_recovery_package_nocheck(pk, package, random_oracle, enc) ==
  [res |-> Ok(decrypt_from_partial_decryption(enc, package.ephemeral_key)),
   calls |-> << "DdhTupleNizk::verify", "decrypt_from_partial_decryption" >>]

\* Mutant: decryption uses the encryption's ephemeral key, not the package's.
decrypt_with_recovery_package_eph(pk, package, random_oracle, enc) ==
  LET v == DdhTupleNizk_verify(package.proof, enc.ephemeral_key, pk,
                               package.ephemeral_key, random_oracle)
  IN IF v.tag = "Err"
     THEN [res |-> v, calls |-> << "DdhTupleNizk::verify" >>]
     ELSE [res |-> Ok(decrypt_from_partial_decryption(enc,
                                                     enc.ephemeral_key)),
           calls |-> << "DdhTupleNizk::verify",
                        "decrypt_from_partial_decryption" >>]

\* The result and the calls made, in order.
decrypt_with_recovery_package(pk, package, random_oracle, enc) ==
  LET v == DdhTupleNizk_verify(package.proof, enc.ephemeral_key, pk,
                               package.ephemeral_key, random_oracle)
  IN IF v.tag = "Err"
     THEN [res |-> v, calls |-> << "DdhTupleNizk::verify" >>]
     ELSE [res |-> Ok(decrypt_from_partial_decryption(enc,
                                                     package.ephemeral_key)),
           calls |-> << "DdhTupleNizk::verify",
                        "decrypt_from_partial_decryption" >>]

\* ----------------------------------------------- MultiRecipientEncryption
\* Mutant: every recipient's info is 0, as in the single-recipient encrypt.
mre_kdf_inputs_info0(pk_and_msgs, r) ==
  [i \in 1 .. Len(pk_and_msgs) |->
     [r_x_g |-> Mul(pk_and_msgs[i].pk, r), info |-> 0]]

\* The key-derivation inputs of recipient i (from 1): pk_i * r and the
\* index enumerate() gives it.
mre_kdf_inputs(pk_and_msgs, r) ==
  [i \in 1 .. Len(pk_and_msgs) |->
     [r_x_g |-> Mul(pk_and_msgs[i].pk, r), info |-> i - 1]]

\* Mutant: the proof is created over no auxiliary data.
mre_encrypt_unbound(pk_and_msgs, random_oracle, r) ==
  LET r_g == Mul(Generator, r)
      ins == mre_kdf_inputs(pk_and_msgs, r)
      encs == [i \in 1 .. Len(pk_and_msgs) |->
                 deterministic_encrypt(pk_and_msgs[i].msg, r_g,
                                       ins[i].r_x_g, ins[i].info).data]
      nizk == DLNizk_create(r, r_g, << >>, random_oracle)
  IN [r_g |-> r_g, ciphertexts |-> encs, proof |-> nizk]

mre_encrypt(pk_and_msgs, random_oracle, r) ==
  LET r_g == Mul(Generator, r)
      ins == mre_kdf_inputs(pk_and_msgs, r)
      encs == [i \in 1 .. Len(pk_and_msgs) |->
                 deterministic_encrypt(pk_and_msgs[i].msg, r_g,
                                       ins[i].r_x_g, ins[i].info).data]
      encs_bytes == BcsVecVec(encs)
      nizk == DLNizk_create(r, r_g, encs_bytes, random_oracle)
  IN [r_g |-> r_g, ciphertexts |-> encs, proof |-> nizk]

\* Mutant: the reconstructed encryption keeps info 0.
get_encryption_info0(m, i) ==
  IF i < Len(m.ciphertexts)
  THEN Ok([ephemeral_key |-> m.r_g, data |-> m.ciphertexts[i + 1],
           hkdf_info |-> 0])
  ELSE Err(InvalidInput)

\* Mutant: the last index is refused.
get_encryption_short(m, i) ==
  IF i + 1 < Len(m.ciphertexts)
  THEN Ok([ephemeral_key |-> m.r_g, data |-> m.ciphertexts[i + 1],
           hkdf_info |-> i])
  ELSE Err(InvalidInput)

get_encryption(m, i) ==
  IF i < Len(m.ciphertexts)
  THEN Ok([ephemeral_key |-> m.r_g, data |-> m.ciphertexts[i + 1],
           hkdf_info |-> i])
  ELSE Err(InvalidInput)

mre_len(m) == Len(m.ciphertexts)
mre_is_empty(m) == Len(m.ciphertexts) = 0

\* Mutant: the proof is checked against the transcript it carries, not
\* against the serialization of the ciphertexts held.
mre_verify_unbound(m, random_oracle) ==
  LET v == DLNizk_verify(m.proof, m.r_g, m.proof.aux, random_oracle)
  IN IF v.tag = "Err" THEN v
     ELSE IF \A k \in 1 .. Len(m.ciphertexts) : Len(m.ciphertexts[k]) # 0
          THEN Ok(Unit)
          ELSE Err(InvalidInput)

\* Mutant: the empty-entry check comes before the proof check.
mre_verify_empty_first(m, random_oracle) ==
  LET encs_bytes == BcsVecVec(m.ciphertexts)
      v == DLNizk_verify(m.proof, m.r_g, encs_bytes, random_oracle)
  IN IF \E k \in 1 .. Len(m.ciphertexts) : Len(m.ciphertexts[k]) = 0
     THEN Err(InvalidInput)
     ELSE v

mre_verify(m, random_oracle) ==
  LET encs_bytes == BcsVecVec(m.ciphertexts)
      v == DLNizk_verify(m.proof, m.r_g, encs_bytes, random_oracle)
  IN IF v.tag = "Err" THEN v
     ELSE IF \A k \in 1 .. Len(m.ciphertexts) : Len(m.ciphertexts[k]) # 0
          THEN Ok(Unit)
          ELSE Err(InvalidInput)

swap_for_testing(m, i, j) ==
  [m EXCEPT !.ciphertexts =
     [k \in 1 .. Len(m.ciphertexts) |->
        IF k = i + 1 THEN m.ciphertexts[j + 1]
        ELSE IF k = j + 1 THEN m.ciphertexts[i + 1]
        ELSE m.ciphertexts[k]]]

copy_for_testing(m, src, dst) ==
  [m EXCEPT !.ciphertexts[dst + 1] = m.ciphertexts[src + 1]]

\* One byte of entry i (from 0) at position p (from 0) changed by `mask`.
mutate_byte(m, i, p, mask) ==
  [m EXCEPT !.ciphertexts[i + 1][p + 1] = Xor8(@, mask)]

\* ------------------------------------------------------------------ state
VARIABLES
  mre,      \* None or Some(MultiRecipientEncryption)
  mre_in,   \* None or Some(the keys, messages, r and oracle given to encrypt,
            \* and the object it returned)
  kdf_log,  \* the (ikm, info) pairs the last batch encrypt derived keys from
  tampers,  \* the test-only mutations applied to mre since encrypt, in order
  enc,      \* None or Some(Encryption)
  enc_in,   \* None or Some(the key and message enc was produced for)
  pkg,      \* None or Some(RecoveryPackage)
  pkg_in,   \* None or Some(the key and oracle pkg was created with)
  out       \* the last call: its name, arguments, result and inner calls

vars == << mre, mre_in, kdf_log, tampers, enc, enc_in, pkg, pkg_in, out >>

MsgSeeds == {0, 1}
Pattern(seed, n) == [p \in 1 .. n |-> (seed + 2 * (p - 1)) % ByteRange]
Msgs == { Pattern(s, n) : s \in MsgSeeds, n \in 0 .. MaxMsgLen }

NoCall == [op |-> "none", arg |-> None, res |-> None, calls |-> << >>]
Call(op, arg, res, calls) ==
  [op |-> op, arg |-> arg, res |-> res, calls |-> calls]

Init ==
  /\ mre = None /\ mre_in = None /\ kdf_log = << >> /\ tampers = << >>
  /\ enc = None /\ enc_in = None
  /\ pkg = None /\ pkg_in = None
  /\ out = NoCall

\* A behaviour follows the objects of one run: one Encryption or one
\* MultiRecipientEncryption is built, and the operations are applied to it.

\* PublicKey::encrypt for the public key of x, with ephemeral scalar r.
PublicKeyEncrypt ==
  \E x \in Scalars, r \in Scalars, m \in Msgs :
    /\ enc = None /\ mre = None
    /\ enc' = Some(Encryption_encrypt(from_private_key(x), m, r))
    /\ enc_in' = Some([sk |-> x, msg |-> m, honest |-> TRUE])
    /\ UNCHANGED << mre, mre_in, kdf_log, tampers, pkg, pkg_in, out >>

\* PrivateKey::decrypt
PrivateKeyDecrypt ==
  \E x \in Scalars :
    /\ enc # None
    /\ out' = Call("decrypt", x, Ok(PrivateKey_decrypt(x, enc[1])),
                   << "decrypt_from_partial_decryption" >>)
    /\ UNCHANGED << mre, mre_in, kdf_log, tampers, enc, enc_in, pkg, pkg_in >>

\* Encryption::decrypt_from_partial_decryption
DecryptFromPartial ==
  \E partial_key \in Elements :
    /\ enc # None
    /\ out' = Call("decrypt_from_partial_decryption", partial_key,
                   Ok(decrypt_from_partial_decryption(enc[1], partial_key)),
                   << >>)
    /\ UNCHANGED << mre, mre_in, kdf_log, tampers, enc, enc_in, pkg, pkg_in >>

\* PrivateKey::create_recovery_package
CreateRecoveryPackage ==
  \E x \in Scalars, ro \in RandomOracles :
    /\ enc # None
    /\ pkg' = Some(create_recovery_package(x, enc[1], ro))
    /\ pkg_in' = Some([sk |-> x, ro |-> ro])
    /\ out' = NoCall
    /\ UNCHANGED << mre, mre_in, kdf_log, tampers, enc, enc_in >>

\* PublicKey::decrypt_with_recovery_package
DecryptWithRecoveryPackage ==
  \E pk \in Elements, ro \in RandomOracles :
    /\ enc # None /\ pkg # None
    /\ LET r == decrypt_with_recovery_package(pk, pkg[1], ro, enc[1])
       IN out' = Call("decrypt_with_recovery_package",
                      [pk |-> pk, ro |-> ro], r.res, r.calls)
    /\ UNCHANGED << mre, mre_in, kdf_log, tampers, enc, enc_in, pkg, pkg_in >>

FlipMasks == {1}

\* MultiRecipientEncryption::encrypt for the public keys of sks.
MultiEncrypt ==
  \E n \in 0 .. MaxRecipients, r \in Scalars, ro \in RandomOracles :
    \E sks \in [1 .. n -> Scalars], msgs \in [1 .. n -> Msgs] :
      LET pk_and_msgs ==
            [i \in 1 .. n |-> [pk |-> from_private_key(sks[i]),
                               msg |-> msgs[i]]]
          m == mre_encrypt(pk_and_msgs, ro, r)
      IN /\ mre = None /\ enc = None
         /\ mre' = Some(m)
         /\ mre_in' = Some([sks |-> sks, msgs |-> msgs, r |-> r, ro |-> ro,
                            orig |-> m])
         /\ kdf_log' = mre_kdf_inputs(pk_and_msgs, r)
         /\ UNCHANGED << tampers, enc, enc_in, pkg, pkg_in, out >>

\* MultiRecipientEncryption::get_encryption
GetEncryption ==
  \E i \in 0 .. MaxRecipients :
    /\ mre # None
    /\ LET res == get_encryption(mre[1], i)
       IN /\ out' = Call("get_encryption", i, res, << >>)
          /\ IF res.tag = "Ok"
             THEN /\ enc' = Some(res.val)
                  /\ enc_in' = Some([sk |-> mre_in[1].sks[i + 1],
                                     msg |-> mre_in[1].msgs[i + 1],
                                     honest |-> (tampers = << >>)])
             ELSE UNCHANGED << enc, enc_in >>
    /\ UNCHANGED << mre, mre_in, kdf_log, tampers, pkg, pkg_in >>

\* MultiRecipientEncryption::verify
Verify ==
  \E ro \in RandomOracles :
    /\ mre # None
    /\ out' = Call("verify", ro, mre_verify(mre[1], ro),
                   << "DLNizk::verify" >>)
    /\ UNCHANGED << mre, mre_in, kdf_log, tampers, enc, enc_in, pkg, pkg_in >>

\* swap_for_testing: slice::swap panics on an index out of range.
SwapForTesting ==
  \E i \in 0 .. (MaxRecipients - 1), j \in 0 .. (MaxRecipients - 1) :
    /\ mre # None /\ Len(tampers) < MaxTamper
    /\ IF i < mre_len(mre[1]) /\ j < mre_len(mre[1])
       THEN /\ mre' = Some(swap_for_testing(mre[1], i, j))
            /\ tampers' = Append(tampers, [op |-> "swap", a |-> i, b |-> j])
            /\ out' = Call("swap_for_testing", << i, j >>, Ok(Unit), << >>)
       ELSE /\ out' = Call("swap_for_testing", << i, j >>,
                           [tag |-> "Panic"], << >>)
            /\ UNCHANGED << mre, tampers >>
    /\ UNCHANGED << mre_in, kdf_log, enc, enc_in, pkg, pkg_in >>

\* copy_for_testing: indexing panics on an index out of range.
CopyForTesting ==
  \E src \in 0 .. (MaxRecipients - 1), dst \in 0 .. (MaxRecipients - 1) :
    /\ mre # None /\ Len(tampers) < MaxTamper
    /\ IF src < mre_len(mre[1]) /\ dst < mre_len(mre[1])
       THEN /\ mre' = Some(copy_for_testing(mre[1], src, dst))
            /\ tampers' = Append(tampers,
                                  [op |-> "copy", a |-> src, b |-> dst])
            /\ out' = Call("copy_for_testing", << src, dst >>, Ok(Unit),
                           << >>)
       ELSE /\ out' = Call("copy_for_testing", << src, dst >>,
                           [tag |-> "Panic"], << >>)
            /\ UNCHANGED << mre, tampers >>
    /\ UNCHANGED << mre_in, kdf_log, enc, enc_in, pkg, pkg_in >>

\* One byte of one ciphertext entry is changed.
MutateByte ==
  \E i \in 0 .. (MaxRecipients - 1), p \in 0 .. (MaxMsgLen - 1),
     mask \in FlipMasks :
    /\ mre # None /\ Len(tampers) < MaxTamper
    /\ i < mre_len(mre[1])
    /\ p < Len(mre[1].ciphertexts[i + 1])
    /\ mre' = Some(mutate_byte(mre[1], i, p, mask))
    /\ tampers' = Append(tampers, [op |-> "mutate", a |-> i, b |-> p])
    /\ out' = Call("mutate_byte", << i, p, mask >>, Ok(Unit), << >>)
    /\ UNCHANGED << mre_in, kdf_log, enc, enc_in, pkg, pkg_in >>

NextMulti ==
  \/ MultiEncrypt
  \/ GetEncryption
  \/ PrivateKeyDecrypt
  \/ Verify

NextTamper ==
  \/ MultiEncrypt
  \/ SwapForTesting
  \/ CopyForTesting
  \/ MutateByte
  \/ Verify

NextSingle ==
  \/ PublicKeyEncrypt
  \/ PrivateKeyDecrypt
  \/ DecryptFromPartial
  \/ CreateRecoveryPackage
  \/ DecryptWithRecoveryPackage

SpecSingle == Init /\ [][NextSingle]_vars
SpecMulti == Init /\ [][NextMulti]_vars
SpecTamper == Init /\ [][NextTamper]_vars

\* ================================================================= claims

\* C1. Single-recipient round trip: decrypting, with private key x, the
\* Encryption of message m produced for public key x*G with ephemeral
\* scalar r returns exactly m.
C1_RoundTrip ==
  (out.op = "decrypt" /\ out.arg = enc_in[1].sk)
    => out.res = Ok(enc_in[1].msg)

C1_Witness ==
  /\ out.op = "decrypt" /\ out.arg = enc_in[1].sk
  /\ Len(enc_in[1].msg) = MaxMsgLen
  /\ enc[1].data # enc_in[1].msg
  /\ enc[1].ephemeral_key # Generator
  /\ out.res = Ok(enc_in[1].msg)

\* C2. Multi-recipient correctness: get_encryption(i) succeeds for every
\* index i below the number of recipients, and decrypting its result with
\* recipient i's private key returns exactly message i.
C2_MultiRoundTrip ==
  /\ (out.op = "get_encryption" /\ out.arg < Len(mre_in[1].sks))
       => (/\ out.res.tag = "Ok"
           /\ enc = Some(out.res.val)
           /\ enc[1].hkdf_info = out.arg)
  /\ (out.op = "decrypt" /\ enc_in[1].honest /\ out.arg = enc_in[1].sk)
       => (/\ enc_in[1].msg = mre_in[1].msgs[enc[1].hkdf_info + 1]
           /\ out.res = Ok(enc_in[1].msg))

C2_Witness ==
  /\ out.op = "decrypt" /\ enc_in[1].honest /\ out.arg = enc_in[1].sk
  /\ enc[1].hkdf_info = 1
  /\ Len(enc_in[1].msg) = MaxMsgLen
  /\ mre_in[1].sks[1] # mre_in[1].sks[2]
  /\ mre_in[1].msgs[1] # mre_in[1].msgs[2]
  /\ out.res = Ok(mre_in[1].msgs[2])

AllNonEmpty(bufs) == \A k \in 1 .. Len(bufs) : Len(bufs[k]) # 0

\* The ephemeral scalar and every recipient's private key are non-zero, so
\* that no group element of the batch is the identity.
NonDegenerate ==
  /\ mre_in[1].r # 0
  /\ \A k \in 1 .. Len(mre_in[1].sks) : mre_in[1].sks[k] # 0

\* C3 (as claimed). For every list of (public key, message) pairs, encrypt
\* returns an object whose ciphertext buffers are all non-empty and on which
\* verify, under the oracle of encrypt, returns Ok.  (Stated on the batches
\* with no identity element: it fails already there.)
C3_Original ==
  (/\ out.op = "verify" /\ tampers = << >> /\ out.arg = mre_in[1].ro
   /\ NonDegenerate)
    => (out.res = Ok(Unit) /\ AllNonEmpty(mre[1].ciphertexts))

\* C3 (amended). For every list of (public key, message) pairs whose
\* messages are all non-empty, encrypt returns an object whose ciphertext
\* buffers are all non-empty and on which verify, under the oracle of
\* encrypt, returns Ok; when some message is empty, its ciphertext buffer is
\* empty and verify returns the invalid-input error.
C3_VerifyHonest ==
  (out.op = "verify" /\ tampers = << >> /\ out.arg = mre_in[1].ro)
    => IF AllNonEmpty(mre_in[1].msgs)
       THEN out.res = Ok(Unit) /\ AllNonEmpty(mre[1].ciphertexts)
       ELSE /\ out.res = Err(InvalidInput)
            /\ \A k \in 1 .. Len(mre_in[1].msgs) :
                 Len(mre[1].ciphertexts[k]) = Len(mre_in[1].msgs[k])

C3_Witness ==
  /\ out.op = "verify" /\ tampers = << >> /\ out.arg = mre_in[1].ro
  /\ Len(mre_in[1].msgs) = MaxRecipients
  /\ AllNonEmpty(mre_in[1].msgs)
  /\ out.res = Ok(Unit)

ListChanged == mre[1].ciphertexts # mre_in[1].orig.ciphertexts

\* A mutation that names two different entries, or changes a byte.
ProperTamper(t) == t.op = "mutate" \/ t.a # t.b

\* C4 (as claimed). After one byte of a ciphertext entry is changed, two
\* entries are swapped, or one entry is replaced with another, verify under
\* the oracle of encrypt returns an error.  (Stated on the batches with no
\* identity element and on mutations that name two different entries: it
\* fails already there.)
C4_Original ==
  (/\ out.op = "verify" /\ out.arg = mre_in[1].ro
   /\ Len(tampers) = 1 /\ ProperTamper(tampers[1])
   /\ NonDegenerate)
    => out.res.tag = "Err"

\* C4 (amended). After any change of a byte, swap or copy that leaves the
\* ordered ciphertext list different from the one encrypt returned, verify
\* under the oracle of encrypt returns an error; a single byte change always
\* changes the list, whereas a swap or copy of two entries holding the same
\* bytes leaves the object as encrypt returned it, and verify then answers as
\* it does on the untouched object.
C4_TamperDetected ==
  /\ (out.op = "verify" /\ out.arg = mre_in[1].ro /\ ListChanged)
       => out.res.tag = "Err"
  /\ (Len(tampers) = 1 /\ tampers[1].op = "mutate") => ListChanged
  /\ (out.op = "verify" /\ out.arg = mre_in[1].ro /\ ~ListChanged)
       => out.res = (IF AllNonEmpty(mre_in[1].orig.ciphertexts)
                     THEN Ok(Unit) ELSE Err(InvalidInput))

C4_Witness ==
  /\ out.op = "verify" /\ out.arg = mre_in[1].ro
  /\ Len(tampers) = 1 /\ tampers[1].op = "swap" /\ tampers[1].a # tampers[1].b
  /\ ListChanged
  /\ AllNonEmpty(mre[1].ciphertexts)
  /\ out.res = Err(InvalidProof)

IsRecoveryCall == out.op = "decrypt_with_recovery_package"

\* C5. Recovery package round trip: a package created for enc with private
\* key x under oracle ro, used by the public key x*G under ro on enc,
\* returns Ok(m) for the message m that enc encrypts for x*G.
C5_RecoveryRoundTrip ==
  (/\ IsRecoveryCall
   /\ pkg_in[1].sk = enc_in[1].sk
   /\ out.arg.pk = from_private_key(enc_in[1].sk)
   /\ out.arg.ro = pkg_in[1].ro)
    => out.res = Ok(enc_in[1].msg)

C5_Witness ==
  /\ IsRecoveryCall
  /\ pkg_in[1].sk = enc_in[1].sk
  /\ out.arg.pk = from_private_key(enc_in[1].sk)
  /\ out.arg.ro = pkg_in[1].ro
  /\ Len(enc_in[1].msg) = MaxMsgLen
  /\ enc[1].data # enc_in[1].msg
  /\ pkg[1].ephemeral_key # enc[1].ephemeral_key
  /\ out.res = Ok(enc_in[1].msg)

ProofCheck ==
  DdhTupleNizk_verify(pkg[1].proof, enc[1].ephemeral_key, out.arg.pk,
                      pkg[1].ephemeral_key, out.arg.ro)

\* C6. Recovery package rejection: a package created with a private key
\* whose public key differs from PK makes PK.decrypt_with_recovery_package
\* return the verification error as a value, with no plaintext; and whenever
\* the DDH-tuple proof does not verify over (enc.ephemeral_key, PK,
\* pkg.ephemeral_key) under ro, the partial-decrypt step is not reached.
C6_RecoveryRejected ==
  /\ (IsRecoveryCall /\ from_private_key(pkg_in[1].sk) # out.arg.pk)
       => out.res = Err(InvalidProof)
  /\ (IsRecoveryCall /\ ProofCheck.tag = "Err")
       => (/\ out.res = ProofCheck
           /\ out.calls = << "DdhTupleNizk::verify" >>)

C6_Witness ==
  /\ IsRecoveryCall
  /\ from_private_key(pkg_in[1].sk) # out.arg.pk
  /\ out.arg.pk = from_private_key(enc_in[1].sk)
  /\ out.arg.ro = pkg_in[1].ro
  /\ Len(enc_in[1].msg) = MaxMsgLen
  /\ out.res = Err(InvalidProof)

\* C7. get_encryption boundary: on a list of n ciphertexts, get_encryption(i)
\* returns Ok(Encryption{r_g, ciphertexts[i], i}) for every i < n and the
\* invalid-input error for every i >= n (every i when the list is empty),
\* and the MultiRecipientEncryption is as encrypt returned it.
C7_GetEncryptionBoundary ==
  out.op = "get_encryption"
    => /\ IF out.arg < mre_len(mre[1])
          THEN out.res = Ok([ephemeral_key |-> mre[1].r_g,
                             data |-> mre[1].ciphertexts[out.arg + 1],
                             hkdf_info |-> out.arg])
          ELSE out.res = Err(InvalidInput)
       /\ mre_is_empty(mre[1]) => out.res = Err(InvalidInput)
       /\ mre[1] = mre_in[1].orig

C7_Witness ==
  /\ out.op = "get_encryption"
  /\ mre_len(mre[1]) = MaxRecipients
  /\ out.arg = mre_len(mre[1]) - 1
  /\ out.res.tag = "Ok"
  /\ out.res.val.hkdf_info = MaxRecipients - 1

C7_WitnessError ==
  /\ out.op = "get_encryption"
  /\ mre_len(mre[1]) >= 1
  /\ out.arg = mre_len(mre[1])
  /\ out.res = Err(InvalidInput)

DLCheck(ro) ==
  DLNizk_verify(mre[1].proof, mre[1].r_g, BcsVecVec(mre[1].ciphertexts), ro)

C8_WitnessEmpty ==
  /\ out.op = "verify"
  /\ ~AllNonEmpty(mre[1].ciphertexts)
  /\ DLCheck(out.arg).tag = "Ok"
  /\ out.res = Err(InvalidInput)

IsPartialCall == out.op = "decrypt_from_partial_decryption"
RightPartialKey == Mul(enc[1].ephemeral_key, enc_in[1].sk)
KeystreamsAgree(k1, k2, info, n) ==
  \A p \in 0 .. (n - 1) :
    Keystream(hkdf(k1, info), fixed_zero_nonce, p)
      = Keystream(hkdf(k2, info), fixed_zero_nonce, p)

\* C9 (as claimed). decrypt_from_partial_decryption returns, for every
\* partial key, a byte string of the ciphertext's length and never an error;
\* it is the plaintext for the intended partial key, and a wrong partial key
\* yields a different output.
C9_Original ==
  IsPartialCall
    => /\ out.res.tag = "Ok"
       /\ Len(out.res.val) = Len(enc[1].data)
       /\ out.arg = RightPartialKey => out.res.val = enc_in[1].msg
       /\ out.arg # RightPartialKey => out.res.val # enc_in[1].msg

\* C9 (amended). decrypt_from_partial_decryption returns, for every partial
\* key, a byte string of the ciphertext's length and never an error; it is
\* the plaintext for the intended partial key; a wrong partial key yields the
\* ciphertext XORed with the keystream of the key derived from it, which
\* differs from the plaintext unless the two keystreams agree on the first
\* len(data) bytes, as they always do for an empty ciphertext.
C9_DecryptTotal ==
  IsPartialCall
    => /\ out.res.tag = "Ok"
       /\ Len(out.res.val) = Len(enc[1].data)
       /\ Len(enc[1].data) = Len(enc_in[1].msg)
       /\ out.arg = RightPartialKey => out.res.val = enc_in[1].msg
       /\ (out.res.val = enc_in[1].msg)
            <=> KeystreamsAgree(out.arg, RightPartialKey, enc[1].hkdf_info,
                                Len(enc[1].data))
       /\ Len(enc[1].data) = 0 => out.res.val = enc_in[1].msg

C9_Witness ==
  /\ IsPartialCall
  /\ out.arg # RightPartialKey
  /\ Len(enc[1].data) = MaxMsgLen
  /\ out.res.tag = "Ok"
  /\ Len(out.res.val) = MaxMsgLen
  /\ out.res.val # enc_in[1].msg

\* C10. Within one call of MultiRecipientEncryption::encrypt the
\* key-derivation inputs (pk_i * r, i) are pairwise distinct over the
\* recipient indices, also when two recipients have the same public key
\* (then the first components are equal and the infos differ), so no two
\* ciphertext entries of a batch are produced under the same derived key.
C10_DistinctKdfInputs ==
  mre # None =>
    /\ Len(kdf_log) = Len(mre_in[1].sks)
    /\ \A i \in 1 .. Len(kdf_log) :
         /\ kdf_log[i].r_x_g
              = Mul(from_private_key(mre_in[1].sks[i]), mre_in[1].r)
         /\ mre_in[1].orig.ciphertexts[i]
              = CtrEncrypt(hkdf(kdf_log[i].r_x_g, kdf_log[i].info),
                           fixed_zero_nonce, mre_in[1].msgs[i])
    /\ \A i, j \in 1 .. Len(kdf_log) :
         i # j =>
           /\ << kdf_log[i].r_x_g, kdf_log[i].info >>
                # << kdf_log[j].r_x_g, kdf_log[j].info >>
           /\ hkdf(kdf_log[i].r_x_g, kdf_log[i].info)
                # hkdf(kdf_log[j].r_x_g, kdf_log[j].info)
           /\ (mre_in[1].sks[i] = mre_in[1].sks[j])
                => (/\ kdf_log[i].r_x_g = kdf_log[j].r_x_g
                    /\ kdf_log[i].info # kdf_log[j].info)

C10_Witness ==
  /\ mre # None
  /\ Len(kdf_log) = MaxRecipients
  /\ mre_in[1].sks[1] = mre_in[1].sks[2]
  /\ kdf_log[1].r_x_g = kdf_log[2].r_x_g
  /\ kdf_log[1].r_x_g # 0
  /\ kdf_log[1].info # kdf_log[2].info

====
